---- MODULE Spec2Model ----
(***************************************************************************)
(* kbase: a read-only dashboard over a versioned search-engine index.      *)
(* One Go source file, main.go: process entry point (dial, echo server,    *)
(* signal handling, deferred exit), two middlewares (access token,         *)
(* template reload) and the GET / handler (revision resolver, kind         *)
(* aggregator, render).                                                    *)
(*                                                                         *)
(* Strings the code inspects character by character (index names, bucket   *)
(* keys, kind labels) are sequences of one-character strings.              *)
(***************************************************************************)
EXTENDS Integers, Sequences, FiniteSets, TLC

\* ------------------------------------------------------------------------
\* Bounds of the model
\* ------------------------------------------------------------------------
\* longest list of index names CatIndices returns
MaxNames == 4
\* longest bucket list of the "kinds" aggregation
MaxBuckets == 2

\* ------------------------------------------------------------------------
\* Generic helpers
\* ------------------------------------------------------------------------
Range(s) == {s[i] : i \in 1..Len(s)}

SeqsUpTo(S, n) == UNION {[1..k -> S] : k \in 0..n}

nil == "nil"

\* ------------------------------------------------------------------------
\* main.go:24   const indexPrefix = "kb-rev"
\* ------------------------------------------------------------------------
indexPrefix == <<"k", "b", "-", "r", "e", "v">>

\* strings.HasPrefix(s, prefix)                                 main.go:124
HasPrefix(s, prefix) ==
    /\ Len(s) >= Len(prefix)
    /\ SubSeq(s, 1, Len(prefix)) = prefix

\* strings.TrimPrefix(s, prefix)                                main.go:127
TrimPrefix(s, prefix) ==
    IF HasPrefix(s, prefix) THEN SubSeq(s, Len(prefix) + 1, Len(s)) ELSE s

Digits == {"0", "1", "2", "3", "4", "5", "6", "7", "8", "9"}

DigitVal(ch) ==
    CASE ch = "0" -> 0 [] ch = "1" -> 1 [] ch = "2" -> 2 [] ch = "3" -> 3
      [] ch = "4" -> 4 [] ch = "5" -> 5 [] ch = "6" -> 6 [] ch = "7" -> 7
      [] ch = "8" -> 8 [] ch = "9" -> 9

\* The digit loop of strconv.Atoi: n = n*10 + int(ch), syntax error on the
\* first byte that is no digit.  Result: [ok, n].
RECURSIVE AtoiLoop(_, _)
AtoiLoop(s, n) ==
    IF Len(s) = 0 THEN [ok |-> TRUE, n |-> n]
    ELSE IF Head(s) \notin Digits THEN [ok |-> FALSE, n |-> 0]
    ELSE AtoiLoop(Tail(s), n * 10 + DigitVal(Head(s)))

\* strconv.Atoi(s) as called at main.go:127.  Every name of the model is
\* shorter than 19 bytes, so no value leaves the range of int: the empty
\* string is a syntax error, one leading '+' or '-' is accepted, a sign
\* alone is a syntax error, the rest must be decimal digits.
AtoiNoSign(s) ==
    IF Len(s) = 0 THEN [ok |-> FALSE, n |-> 0]
    ELSE LET body == IF Head(s) \in {"+", "-"} THEN Tail(s) ELSE s
         IN  IF Len(body) < 1 THEN [ok |-> FALSE, n |-> 0]
             ELSE AtoiLoop(body, 0)

Atoi(s) ==
    IF Len(s) = 0 THEN [ok |-> FALSE, n |-> 0]
    ELSE LET body == IF Head(s) \in {"+", "-"} THEN Tail(s) ELSE s
         IN  IF Len(body) < 1 THEN [ok |-> FALSE, n |-> 0]
             ELSE LET r == AtoiLoop(body, 0)
                  IN  IF r.ok /\ Head(s) = "-"
                      THEN [ok |-> TRUE, n |-> 0 - r.n]
                      ELSE r

\* type DataIndex struct { Index string; Rev int }         main.go:105-108
DataIndex(index, rev) == [Index |-> index, Rev |-> rev]

\* The filter loop of the GET / handler, main.go:123-133: names without the
\* prefix are skipped, names whose remainder Atoi rejects add nothing, the
\* others are appended in input order.
RECURSIVE FilterIndicesNoPrefixCheck(_, _)
FilterIndicesNoPrefixCheck(res, acc) ==
    IF Len(res) = 0 THEN acc
    ELSE LET item == Head(res)
             r    == Atoi(TrimPrefix(item, indexPrefix))
         IN  IF r.ok
             THEN FilterIndicesNoPrefixCheck(Tail(res), Append(acc, DataIndex(item, r.n)))
             ELSE FilterIndicesNoPrefixCheck(Tail(res), acc)

RECURSIVE FilterIndices(_, _)
FilterIndices(res, acc) ==
    IF Len(res) = 0 THEN acc
    ELSE LET item == Head(res)
         IN  IF ~HasPrefix(item, indexPrefix)
             THEN FilterIndices(Tail(res), acc)
             ELSE LET r == Atoi(TrimPrefix(item, indexPrefix))
                  IN  IF r.ok
                      THEN FilterIndices(Tail(res), Append(acc, DataIndex(item, r.n)))
                      ELSE FilterIndices(Tail(res), acc)

\* The less function handed to sort.Slice, main.go:134-136.
LessAscending(a, b) == a.Rev < b.Rev

Less(a, b) == a.Rev > b.Rev

Swap(s, i, j) == [s EXCEPT ![i] = s[j], ![j] = s[i]]

\* sort.Slice on fewer than 12 elements is an insertion sort:
\*   for i := a+1; i < b; i++ {
\*       for j := i; j > a && less(j, j-1); j-- { swap(j, j-1) } }
RECURSIVE InsertLeft(_, _)
InsertLeft(s, j) ==
    IF j > 1 /\ Less(s[j], s[j - 1])
    THEN InsertLeft(Swap(s, j, j - 1), j - 1)
    ELSE s

RECURSIVE InsertionSort(_, _)
InsertionSort(s, i) ==
    IF i > Len(s) THEN s ELSE InsertionSort(InsertLeft(s, i), i + 1)

SortSlice(s) == InsertionSort(s, 2)

\* main.go:137-142: the synthetic revision 1 when nothing was found.
WithDefaultAlways(indices) ==
    Append(indices, DataIndex(indexPrefix \o <<"1">>, 1))

WithDefault(indices) ==
    IF Len(indices) = 0
    THEN Append(indices, DataIndex(indexPrefix \o <<"1">>, 1))
    ELSE indices

\* The revision resolver block of the handler, main.go:118-143, after a
\* successful CatIndices.
Resolve(res) == WithDefault(SortSlice(FilterIndices(res, <<>>)))

\* ------------------------------------------------------------------------
\* Kind aggregator, main.go:144-160
\* ------------------------------------------------------------------------
\* A bucket key is the JSON scalar the search engine sent, decoded into an
\* interface{}: a string, a float64 (the model keeps the integral ones) or a
\* bool.
\* Field t is the dynamic type; s, n, b hold the value of that type.
StrKey(s)  == [t |-> "string", s |-> s, n |-> 0, b |-> FALSE]
NumKey(n)  == [t |-> "float64", s |-> <<>>, n |-> n, b |-> FALSE]
BoolKey(b) == [t |-> "bool", s |-> <<>>, n |-> 0, b |-> b]

DigitChar(d) ==
    CASE d = 0 -> "0" [] d = 1 -> "1" [] d = 2 -> "2" [] d = 3 -> "3"
      [] d = 4 -> "4" [] d = 5 -> "5" [] d = 6 -> "6" [] d = 7 -> "7"
      [] d = 8 -> "8" [] d = 9 -> "9"

RECURSIVE ToDigits(_)
ToDigits(n) ==
    IF n < 10 THEN <<DigitChar(n)>>
    ELSE Append(ToDigits(n \div 10), DigitChar(n % 10))

RECURSIVE StripTrailingZeros(_)
StripTrailingZeros(ds) ==
    IF Len(ds) > 1 /\ ds[Len(ds)] = "0"
    THEN StripTrailingZeros(SubSeq(ds, 1, Len(ds) - 1))
    ELSE ds

\* %v of a float64 is %g with the shortest precision: decimal exponents of
\* 6 and more are printed as d.ddde+XX, smaller ones as plain digits.
FormatFloat(x) ==
    LET sign == IF x < 0 THEN <<"-">> ELSE <<>>
        ds   == ToDigits(IF x < 0 THEN 0 - x ELSE x)
        exp  == Len(ds) - 1
        digs == StripTrailingZeros(ds)
        frac == IF Len(digs) > 1 THEN <<".">> \o Tail(digs) ELSE <<>>
        ex   == IF exp < 10 THEN <<"0">> \o ToDigits(exp) ELSE ToDigits(exp)
    IN  IF exp >= 6
        THEN sign \o <<Head(digs)>> \o frac \o <<"e", "+">> \o ex
        ELSE sign \o ds

\* fmt.Sprintf("%v", bucket.Key)                                main.go:155
SprintfV(key) ==
    CASE key.t = "string"  -> key.s
      [] key.t = "bool"    -> IF key.b THEN <<"t", "r", "u", "e">>
                              ELSE <<"f", "a", "l", "s", "e">>
      [] key.t = "float64" -> FormatFloat(key.n)

\* type DataKind struct { Kind string; Count int64 }       main.go:109-112
DataKind(kind, count) == [Kind |-> kind, Count |-> count]

\* res.Aggregations.Terms("kinds") yields nil when the aggregation is absent;
\* present says whether it yielded items, Buckets are items.Buckets.
absent == [present |-> FALSE, Buckets |-> <<>>]

Terms(buckets) == [present |-> TRUE, Buckets |-> buckets]

\* main.go:152-159: one DataKind per bucket, appended in bucket order;
\* nothing is appended when the aggregation is absent.
RECURSIVE KindsLoopPrepend(_, _)
KindsLoopPrepend(buckets, acc) ==
    IF Len(buckets) = 0 THEN acc
    ELSE KindsLoopPrepend(Tail(buckets),
             <<DataKind(SprintfV(Head(buckets).Key), Head(buckets).DocCount)>> \o acc)

RECURSIVE KindsLoop(_, _)
KindsLoop(buckets, acc) ==
    IF Len(buckets) = 0 THEN acc
    ELSE KindsLoop(Tail(buckets),
             Append(acc, DataKind(SprintfV(Head(buckets).Key), Head(buckets).DocCount)))

AggregatePlaceholder(items) ==
    IF items.present THEN KindsLoop(items.Buckets, <<>>)
    ELSE <<DataKind(<<>>, 0)>>

Aggregate(items) ==
    IF items.present THEN KindsLoop(items.Buckets, <<>>) ELSE <<>>

\* ------------------------------------------------------------------------
\* Inputs
\* ------------------------------------------------------------------------
\* Index names the cluster may report: the names of the documentation's
\* scenarios, an unrelated name, a bare number, and names with the prefix
\* and an empty, signed, sign-only, multi-digit, alphabetic or mixed
\* remainder.
Name(suffix) == indexPrefix \o suffix

IndexNames ==
    { Name(<<"1">>), Name(<<"2">>), Name(<<"3">>), Name(<<"+", "1", "0">>),
      Name(<<"-", "2">>), Name(<<>>), Name(<<"-">>), Name(<<"2", "x">>),
      Name(<<"-", "l", "e", "g", "a", "c", "y">>),
      <<"o", "t", "h", "e", "r", "-", "i", "n", "d", "e", "x">>,
      <<"7">> }

NameLists == SeqsUpTo(IndexNames, MaxNames)

BucketKeys ==
    { StrKey(<<"d", "o", "c">>), StrKey(<<"p", "a", "g", "e">>), StrKey(<<>>),
      NumKey(0), NumKey(42), NumKey(0 - 7), NumKey(100000), NumKey(1000000),
      NumKey(1500000), BoolKey(TRUE), BoolKey(FALSE) }

\* DocCount is an int64 copied as is; the values include one above 2^31 / 2.
DocCounts == {0, 2, 5, 2000000000}

Buckets == [Key : BucketKeys, DocCount : DocCounts]

Aggregations == {absent} \cup {Terms(b) : b \in SeqsUpTo(Buckets, MaxBuckets)}

\* Inputs of the running server: a few CatIndices results and aggregations.
ServedCatResults ==
    { <<>>,
      << <<"o", "t", "h", "e", "r", "-", "i", "n", "d", "e", "x">> >>,
      << Name(<<"1">>), Name(<<"3">>) >> }

ServedAggregations ==
    { absent, Terms(<<>>),
      Terms(<< [Key |-> StrKey(<<"d", "o", "c">>), DocCount |-> 5],
               [Key |-> StrKey(<<"p", "a", "g", "e">>), DocCount |-> 2] >>) }

Paths  == {"/", "/other"}
Tokens == {"s3cret", "S3CRET"}

\* Request goroutines the server runs at the same time.
Procs == {"r1", "r2"}

DialErrors     == {"dial: no Elasticsearch node available"}
StartErrors    == {"listen: address already in use"}
ErrServerClosed == "http: Server closed"
ShutdownErrors == {"shutdown: close listener"}
CatErrors      == {"cat indices: connection refused"}
SearchErrors   == {"search: timeout"}
ErrRenderer    == "renderer not initialized"

\* ------------------------------------------------------------------------
\* State
\* ------------------------------------------------------------------------
VARIABLES
    envDebug,        \* KB_DEBUG                                main.go:56
    envAccessToken,  \* KB_ACCESS_TOKEN                         main.go:54
    mainPc,          \* position of main
    err,             \* main's err variable                     main.go:47
    exitStatus,      \* -1 while running, else the exit status
    logged,          \* what exit() logged
    chErr,           \* chan error, capacity 1                  main.go:164
    chSig,           \* chan os.Signal, capacity 1              main.go:165
    woken,           \* the select case a send handed to the blocked main
    srv,             \* position of the goroutine running e.Start
    templates,       \* renderer.templates                      main.go:27
    rpc,             \* position of each request
    req,             \* its path and access_token
    data,            \* the handler's  var data Data            main.go:117
    aggIn,           \* the aggregation its search returned
    upErr,           \* the error a search-engine call returned to it
    herr,            \* the error its handler returned
    resp,            \* status code and body written
    view,            \* what was handed to c.Render
    calls,           \* CatIndices, Search and Render calls it made
    dialRes,         \* history: result of elastic.Dial
    startRes,        \* history: the error e.Start returned
    startBeforeSig,  \* history: Start returned an error before any signal
    sigDelivered,    \* history: a signal was delivered to chSig
    sigCaught,       \* history: main received from chSig
    shutdownCalled,  \* history: e.Shutdown was called
    shutdownRes,     \* history: result of e.Shutdown
    stage,           \* pure-function checks: "off", "input" or "done"
    rNames,          \* input of the revision resolver
    rIndices,        \* its output
    aAgg,            \* input of the kind aggregator
    aKinds           \* its output

mainVars == <<mainPc, err, exitStatus, logged, chErr, chSig, woken, srv,
              dialRes, startRes, startBeforeSig, sigDelivered, sigCaught,
              shutdownCalled, shutdownRes>>
reqVars  == <<templates, rpc, req, data, aggIn, upErr, herr, resp, view, calls>>
envVars  == <<envDebug, envAccessToken>>
pureVars == <<stage, rNames, rIndices, aAgg, aKinds>>
vars     == <<envVars, mainVars, reqVars, pureVars>>

NoData  == [Indices |-> <<>>, Kinds |-> <<>>]
NoReq   == [path |-> "", token |-> ""]
NoResp  == [code |-> 0, body |-> ""]
NoCalls == [cat |-> 0, search |-> 0, render |-> 0]

\* ------------------------------------------------------------------------
\* Initial states
\* ------------------------------------------------------------------------
InitEnv ==
    /\ envDebug \in BOOLEAN
    /\ envAccessToken = "s3cret"

InitMain ==
    /\ mainPc = "dial"
    /\ err = nil
    /\ exitStatus = -1
    /\ logged = ""
    /\ chErr = <<>>
    /\ chSig = <<>>
    /\ woken = "none"
    /\ srv = "none"
    /\ dialRes = nil
    /\ startRes = nil
    /\ startBeforeSig = FALSE
    /\ sigDelivered = FALSE
    /\ sigCaught = FALSE
    /\ shutdownCalled = FALSE
    /\ shutdownRes = nil

InitReq ==
    /\ templates = nil
    /\ rpc = [p \in Procs |-> "idle"]
    /\ req = [p \in Procs |-> NoReq]
    /\ data = [p \in Procs |-> NoData]
    /\ aggIn = [p \in Procs |-> absent]
    /\ upErr = [p \in Procs |-> nil]
    /\ herr = [p \in Procs |-> nil]
    /\ resp = [p \in Procs |-> NoResp]
    /\ view = [p \in Procs |-> NoData]
    /\ calls = [p \in Procs |-> NoCalls]

InitPureOff ==
    /\ stage = "off"
    /\ rNames = <<>>
    /\ rIndices = <<>>
    /\ aAgg = absent
    /\ aKinds = <<>>

Init == InitEnv /\ InitMain /\ InitReq /\ InitPureOff

\* ------------------------------------------------------------------------
\* main, main.go:46-181
\* ------------------------------------------------------------------------
\* exit(&err), main.go:37-44, deferred at main.go:48: status 1 and the error
\* logged when *err != nil, else "exited" and a normal return from main.
ExitStatus(e) == IF e # nil THEN 1 ELSE 0

Exit(e) ==
    /\ exitStatus' = ExitStatus(e)
    /\ logged' = IF e # nil THEN e ELSE "exited"
    /\ mainPc' = "exited"

\* main.go:72-74: elastic.Dial fails, main returns.
DialFail ==
    /\ mainPc = "dial"
    /\ \E e \in DialErrors :
         /\ err' = e
         /\ dialRes' = e
         /\ Exit(e)
    /\ UNCHANGED <<startRes, chErr, chSig, woken, srv, startBeforeSig, sigDelivered,
                   sigCaught, shutdownCalled, shutdownRes>>
    /\ UNCHANGED <<envVars, reqVars, pureVars>>

\* main.go:72-171: Dial succeeds, the server is configured, the channels are
\* made, the signals are registered and the goroutine is started.
DialOK ==
    /\ mainPc = "dial"
    /\ mainPc' = "select"
    /\ srv' = "starting"
    /\ UNCHANGED <<err, exitStatus, logged, chErr, chSig, woken, dialRes, startRes,
                   startBeforeSig, sigDelivered, sigCaught, shutdownCalled,
                   shutdownRes>>
    /\ UNCHANGED <<envVars, reqVars, pureVars>>

\* e.Start(envBind), main.go:170: the listener is bound.
StartListen ==
    /\ srv = "starting"
    /\ mainPc # "exited"
    /\ srv' = "listening"
    /\ UNCHANGED <<mainPc, err, exitStatus, logged, chErr, chSig, woken,
                   dialRes, startRes, startRes, startBeforeSig, sigDelivered, sigCaught,
                   shutdownCalled, shutdownRes>>
    /\ UNCHANGED <<envVars, reqVars, pureVars>>

\* chErr <- e.Start(envBind), main.go:170.  The send never blocks: the
\* channel has capacity 1 and this is its only send.  A send that finds main
\* blocked in the select hands the value to it and settles the case.
SendErr(e) ==
    /\ chErr' = <<e>>
    /\ startRes' = e
    /\ srv' = "returned"
    /\ woken' = IF mainPc = "parked" /\ woken = "none" THEN "err" ELSE woken

\* Start fails to bind, or the running server fails.
StartFails ==
    /\ srv \in {"starting", "listening"}
    /\ mainPc # "exited"
    /\ \E e \in StartErrors : SendErr(e)
    /\ startBeforeSig' = (startBeforeSig \/ ~sigDelivered)
    /\ UNCHANGED <<mainPc, err, exitStatus, logged, chSig, dialRes,
                   sigDelivered, sigCaught, shutdownCalled, shutdownRes>>
    /\ UNCHANGED <<envVars, reqVars, pureVars>>

\* Start returns http.ErrServerClosed once Shutdown closed the server.
StartClosed ==
    /\ srv = "closing"
    /\ mainPc # "exited"
    /\ SendErr(ErrServerClosed)
    /\ UNCHANGED <<mainPc, err, exitStatus, logged, chSig, dialRes,
                   startBeforeSig, sigDelivered, sigCaught, shutdownCalled,
                   shutdownRes>>
    /\ UNCHANGED <<envVars, reqVars, pureVars>>

\* SIGTERM or SIGINT is delivered to chSig (signal.Notify, main.go:166); a
\* signal that finds the channel full is dropped.
Signal ==
    /\ mainPc \notin {"dial", "exited"}
    /\ chSig = <<>>
    /\ \E sig \in {"SIGTERM", "SIGINT"} : chSig' = <<sig>>
    /\ sigDelivered' = TRUE
    /\ woken' = IF mainPc = "parked" /\ woken = "none" THEN "sig" ELSE woken
    /\ UNCHANGED <<mainPc, err, exitStatus, logged, chErr, srv, dialRes, startRes,
                   startBeforeSig, sigCaught, shutdownCalled, shutdownRes>>
    /\ UNCHANGED <<envVars, reqVars, pureVars>>

\* select, main.go:173: no case is ready, main blocks.
SelectPark ==
    /\ mainPc = "select"
    /\ chErr = <<>>
    /\ chSig = <<>>
    /\ mainPc' = "parked"
    /\ UNCHANGED <<err, exitStatus, logged, chErr, chSig, woken, srv, dialRes, startRes,
                   startBeforeSig, sigDelivered, sigCaught, shutdownCalled,
                   shutdownRes>>
    /\ UNCHANGED <<envVars, reqVars, pureVars>>

\* case err = <-chErr: return, main.go:174-175.  Chosen among the ready
\* cases when main reaches the select, or handed over while it was blocked.
SelectErr ==
    /\ \/ mainPc = "select" /\ chErr # <<>>
       \/ mainPc = "parked" /\ woken = "err"
    /\ err' = Head(chErr)
    /\ chErr' = <<>>
    /\ Exit(Head(chErr))
    /\ UNCHANGED <<chSig, woken, srv, dialRes, startRes, startBeforeSig, sigDelivered,
                   sigCaught, shutdownCalled, shutdownRes>>
    /\ UNCHANGED <<envVars, reqVars, pureVars>>

\* case sig := <-chSig, main.go:176-178: logged, then a second of sleep.
SelectSig ==
    /\ \/ mainPc = "select" /\ chSig # <<>>
       \/ mainPc = "parked" /\ woken = "sig"
    /\ chSig' = <<>>
    /\ sigCaught' = TRUE
    /\ mainPc' = "sleep"
    /\ UNCHANGED <<err, exitStatus, logged, chErr, woken, srv, dialRes, startRes,
                   startBeforeSig, sigDelivered, shutdownCalled, shutdownRes>>
    /\ UNCHANGED <<envVars, reqVars, pureVars>>

\* e.Shutdown(context.Background()), main.go:179: the listener is closed,
\* Start returns ErrServerClosed, Shutdown waits for the requests in flight.
ShutdownBegin ==
    /\ mainPc = "sleep"
    /\ mainPc' = "draining"
    /\ shutdownCalled' = TRUE
    /\ srv' = IF srv \in {"starting", "listening"} THEN "closing" ELSE srv
    /\ UNCHANGED <<err, exitStatus, logged, chErr, chSig, woken, dialRes, startRes,
                   startBeforeSig, sigDelivered, sigCaught, shutdownRes>>
    /\ UNCHANGED <<envVars, reqVars, pureVars>>

\* Shutdown returns once no request is in flight; err is its result and
\* main returns, main.go:179-181.
ShutdownEnd ==
    /\ mainPc = "draining"
    /\ \A p \in Procs : rpc[p] = "idle"
    /\ \E e \in {nil} \cup ShutdownErrors :
         /\ err' = e
         /\ shutdownRes' = e
         /\ Exit(e)
    /\ UNCHANGED <<chErr, chSig, woken, srv, dialRes, startRes, startBeforeSig,
                   sigDelivered, sigCaught, shutdownCalled>>
    /\ UNCHANGED <<envVars, reqVars, pureVars>>

\* ------------------------------------------------------------------------
\* Requests, main.go:86-162
\* ------------------------------------------------------------------------
Alive == mainPc # "exited"

\* c.Path(): the path of the route the router matched; "/" is the only route
\* registered (main.go:104), no route gives the empty path.
CPath(path) == IF path = "/" THEN "/" ELSE ""

\* The condition of the access_token middleware, main.go:89.
ForbiddenNever(path, token) == FALSE

Forbidden(path, token) == CPath(path) # "/" /\ token # envAccessToken

\* The server accepts a request and hands it to the middleware chain.
Accept(p) ==
    /\ Alive
    /\ srv = "listening"
    /\ rpc[p] = "idle"
    /\ \E path \in Paths, token \in Tokens :
         req' = [req EXCEPT ![p] = [path |-> path, token |-> token]]
    /\ rpc' = [rpc EXCEPT ![p] = "auth"]
    /\ UNCHANGED <<templates, data, aggIn, upErr, herr, resp, view, calls>>
    /\ UNCHANGED <<envVars, mainVars, pureVars>>

\* Access token middleware, main.go:87-95.
AccessToken(p) ==
    /\ Alive
    /\ rpc[p] = "auth"
    /\ IF Forbidden(req[p].path, req[p].token)
       THEN /\ resp' = [resp EXCEPT ![p] = [code |-> 403, body |-> "invalid access_token"]]
            /\ rpc' = [rpc EXCEPT ![p] = "done"]
       ELSE /\ rpc' = [rpc EXCEPT ![p] = "tmpl"]
            /\ UNCHANGED resp
    /\ UNCHANGED <<templates, req, data, aggIn, upErr, herr, view, calls>>
    /\ UNCHANGED <<envVars, mainVars, pureVars>>

\* next(c) of the innermost middleware: the GET / handler for the route "/",
\* the router's not-found handler for any other path.
CallNext(p) ==
    IF req[p].path = "/"
    THEN /\ rpc' = [rpc EXCEPT ![p] = "cat"]
         /\ UNCHANGED resp
    ELSE /\ rpc' = [rpc EXCEPT ![p] = "done"]
         /\ resp' = [resp EXCEPT ![p] = [code |-> 404, body |-> "Not Found"]]

\* Template middleware, main.go:97-98: the read of renderer.templates and
\* the decision to reload.
TemplateCheck(p) ==
    /\ Alive
    /\ rpc[p] = "tmpl"
    /\ IF templates = nil \/ envDebug
       THEN /\ rpc' = [rpc EXCEPT ![p] = "parse"]
            /\ UNCHANGED resp
       ELSE CallNext(p)
    /\ UNCHANGED <<templates, req, data, aggIn, upErr, herr, view, calls>>
    /\ UNCHANGED <<envVars, mainVars, pureVars>>

\* main.go:99-101: ParseGlob succeeded, renderer.templates is written.
TemplateStore(p) ==
    /\ Alive
    /\ rpc[p] = "parse"
    /\ templates' = "parsed"
    /\ CallNext(p)
    /\ UNCHANGED <<req, data, aggIn, upErr, herr, view, calls>>
    /\ UNCHANGED <<envVars, mainVars, pureVars>>

\* main.go:99: ParseGlob failed, template.Must panics, middleware.Recover
\* (main.go:86) turns the panic into an error response.
TemplatePanic(p) ==
    /\ Alive
    /\ rpc[p] = "parse"
    /\ herr' = [herr EXCEPT ![p] = "template: pattern matches no files"]
    /\ resp' = [resp EXCEPT ![p] = [code |-> 500, body |-> "Internal Server Error"]]
    /\ rpc' = [rpc EXCEPT ![p] = "done"]
    /\ UNCHANGED <<templates, req, data, aggIn, upErr, view, calls>>
    /\ UNCHANGED <<envVars, mainVars, pureVars>>

\* A handler that returns an error: echo's error handler answers 500.
ReturnErr(p, e) ==
    /\ herr' = [herr EXCEPT ![p] = e]
    /\ resp' = [resp EXCEPT ![p] = [code |-> 500, body |-> "Internal Server Error"]]
    /\ rpc' = [rpc EXCEPT ![p] = "done"]

\* main.go:120-122: CatIndices fails, the handler returns the error.
CatIndicesFailIgnored(p) ==
    /\ Alive
    /\ rpc[p] = "cat"
    /\ \E e \in CatErrors : upErr' = [upErr EXCEPT ![p] = e]
    /\ calls' = [calls EXCEPT ![p].cat = @ + 1]
    /\ data' = [data EXCEPT ![p].Indices = Resolve(<<>>)]
    /\ rpc' = [rpc EXCEPT ![p] = "search"]
    /\ UNCHANGED <<templates, req, aggIn, herr, resp, view>>
    /\ UNCHANGED <<envVars, mainVars, pureVars>>

CatIndicesFail(p) ==
    /\ Alive
    /\ rpc[p] = "cat"
    /\ \E e \in CatErrors :
         /\ upErr' = [upErr EXCEPT ![p] = e]
         /\ ReturnErr(p, e)
    /\ calls' = [calls EXCEPT ![p].cat = @ + 1]
    /\ UNCHANGED <<templates, req, data, aggIn, view>>
    /\ UNCHANGED <<envVars, mainVars, pureVars>>

\* main.go:119-143: CatIndices succeeds, the revisions are resolved.
CatIndicesOK(p) ==
    /\ Alive
    /\ rpc[p] = "cat"
    /\ \E res \in ServedCatResults :
         data' = [data EXCEPT ![p].Indices = Resolve(res)]
    /\ calls' = [calls EXCEPT ![p].cat = @ + 1]
    /\ rpc' = [rpc EXCEPT ![p] = "search"]
    /\ UNCHANGED <<templates, req, aggIn, upErr, herr, resp, view>>
    /\ UNCHANGED <<envVars, mainVars, pureVars>>

\* main.go:146-150: the search fails, the handler returns the error.
SearchFail(p) ==
    /\ Alive
    /\ rpc[p] = "search"
    /\ \E e \in SearchErrors :
         /\ upErr' = [upErr EXCEPT ![p] = e]
         /\ ReturnErr(p, e)
    /\ calls' = [calls EXCEPT ![p].search = @ + 1]
    /\ UNCHANGED <<templates, req, data, aggIn, view>>
    /\ UNCHANGED <<envVars, mainVars, pureVars>>

\* main.go:145-160: the search succeeds, the kinds are collected.
SearchOK(p) ==
    /\ Alive
    /\ rpc[p] = "search"
    /\ \E items \in ServedAggregations :
         /\ aggIn' = [aggIn EXCEPT ![p] = items]
         /\ data' = [data EXCEPT ![p].Kinds = Aggregate(items)]
    /\ calls' = [calls EXCEPT ![p].search = @ + 1]
    /\ rpc' = [rpc EXCEPT ![p] = "render"]
    /\ UNCHANGED <<templates, req, upErr, herr, resp, view>>
    /\ UNCHANGED <<envVars, mainVars, pureVars>>

\* return c.Render(http.StatusOK, "index", data), main.go:161, through
\* Renderer.Render, main.go:30-35, which reads renderer.templates.
Render(p) ==
    /\ Alive
    /\ rpc[p] = "render"
    /\ calls' = [calls EXCEPT ![p].render = @ + 1]
    /\ view' = [view EXCEPT ![p] = data[p]]
    /\ IF templates = nil
       THEN ReturnErr(p, ErrRenderer)
       ELSE /\ resp' = [resp EXCEPT ![p] = [code |-> 200, body |-> "index"]]
            /\ rpc' = [rpc EXCEPT ![p] = "done"]
            /\ UNCHANGED herr
    /\ UNCHANGED <<templates, req, data, aggIn, upErr>>
    /\ UNCHANGED <<envVars, mainVars, pureVars>>

\* The response is written; nothing of the request outlives it.
Finish(p) ==
    /\ Alive
    /\ rpc[p] = "done"
    /\ rpc' = [rpc EXCEPT ![p] = "idle"]
    /\ req' = [req EXCEPT ![p] = NoReq]
    /\ data' = [data EXCEPT ![p] = NoData]
    /\ aggIn' = [aggIn EXCEPT ![p] = absent]
    /\ upErr' = [upErr EXCEPT ![p] = nil]
    /\ herr' = [herr EXCEPT ![p] = nil]
    /\ resp' = [resp EXCEPT ![p] = NoResp]
    /\ view' = [view EXCEPT ![p] = NoData]
    /\ calls' = [calls EXCEPT ![p] = NoCalls]
    /\ UNCHANGED templates
    /\ UNCHANGED <<envVars, mainVars, pureVars>>

Next ==
    \/ DialFail
    \/ DialOK
    \/ StartListen
    \/ StartFails
    \/ StartClosed
    \/ Signal
    \/ SelectPark
    \/ SelectErr
    \/ SelectSig
    \/ ShutdownBegin
    \/ ShutdownEnd
    \/ \E p \in Procs : Accept(p)
    \/ \E p \in Procs : AccessToken(p)
    \/ \E p \in Procs : TemplateCheck(p)
    \/ \E p \in Procs : TemplateStore(p)
    \/ \E p \in Procs : TemplatePanic(p)
    \/ \E p \in Procs : CatIndicesFail(p)
    \/ \E p \in Procs : CatIndicesOK(p)
    \/ \E p \in Procs : SearchFail(p)
    \/ \E p \in Procs : SearchOK(p)
    \/ \E p \in Procs : Render(p)
    \/ \E p \in Procs : Finish(p)

Spec == Init /\ [][Next]_vars

\* ------------------------------------------------------------------------
\* The two pure transformations of the handler on their own, over every
\* bounded input: the resolver block (main.go:123-142) and the kinds block
\* (main.go:152-159).
\* ------------------------------------------------------------------------
InitResolve ==
    /\ envDebug = FALSE
    /\ envAccessToken = "s3cret"
    /\ InitMain
    /\ InitReq
    /\ stage = "input"
    /\ rNames \in NameLists
    /\ rIndices = <<>>
    /\ aAgg = absent
    /\ aKinds = <<>>

RunResolve ==
    /\ stage = "input"
    /\ rIndices' = Resolve(rNames)
    /\ stage' = "done"
    /\ UNCHANGED <<rNames, aAgg, aKinds>>
    /\ UNCHANGED <<envVars, mainVars, reqVars>>

SpecResolve == InitResolve /\ [][RunResolve]_vars

InitAggregate ==
    /\ envDebug = FALSE
    /\ envAccessToken = "s3cret"
    /\ InitMain
    /\ InitReq
    /\ stage = "input"
    /\ rNames = <<>>
    /\ rIndices = <<>>
    /\ aAgg \in Aggregations
    /\ aKinds = <<>>

RunAggregate ==
    /\ stage = "input"
    /\ aKinds' = Aggregate(aAgg)
    /\ stage' = "done"
    /\ UNCHANGED <<rNames, rIndices, aAgg>>
    /\ UNCHANGED <<envVars, mainVars, reqVars>>

SpecAggregate == InitAggregate /\ [][RunAggregate]_vars

\* ------------------------------------------------------------------------
\* Properties
\* ------------------------------------------------------------------------
\* What the documentation calls a name of the form prefix + N, stated
\* without the code's parser: the prefix, then an optional sign, then one or
\* more decimal digits.
Remainder(name) ==
    [i \in 1..(Len(name) - Len(indexPrefix)) |-> name[i + Len(indexPrefix)]]

Unsigned(rest) ==
    IF rest[1] \in {"+", "-"} THEN [i \in 1..(Len(rest) - 1) |-> rest[i + 1]] ELSE rest

Qualifies(name) ==
    /\ Len(name) > Len(indexPrefix)
    /\ \A i \in 1..Len(indexPrefix) : name[i] = indexPrefix[i]
    /\ LET body == Unsigned(Remainder(name))
       IN  /\ Len(body) >= 1
           /\ \A i \in 1..Len(body) : body[i] \in Digits

RECURSIVE Pow10(_)
Pow10(k) == IF k = 0 THEN 1 ELSE 10 * Pow10(k - 1)

\* The positional value of a digit string: the sum of d_i * 10^(len - i).
RECURSIVE PositionalSum(_, _)
PositionalSum(ds, i) ==
    IF i > Len(ds) THEN 0
    ELSE DigitVal(ds[i]) * Pow10(Len(ds) - i) + PositionalSum(ds, i + 1)

SignedValue(rest) ==
    IF rest[1] = "-" THEN 0 - PositionalSum(Unsigned(rest), 1)
    ELSE PositionalSum(Unsigned(rest), 1)

RevOf(name) == SignedValue(Remainder(name))

Occurrences(seq, x) == Cardinality({i \in DOMAIN seq : seq[i] = x})

QualifyingPositions(names) == {i \in DOMAIN names : Qualifies(names[i])}

ExpectedEntries(names) ==
    {DataIndex(names[i], RevOf(names[i])) : i \in QualifyingPositions(names)}

\* C1: whenever at least one name qualifies, the resolved Indices hold
\* exactly one entry per input name that is the prefix followed by a signed
\* decimal integer N, with Index the name and Rev = N; every other name
\* contributes nothing.
C1_OneEntryPerQualifyingName ==
    (stage = "done" /\ QualifyingPositions(rNames) # {}) =>
        /\ Len(rIndices) = Cardinality(QualifyingPositions(rNames))
        /\ \A e \in Range(rIndices) \cup ExpectedEntries(rNames) :
             Occurrences(rIndices, e) =
                 Cardinality({i \in QualifyingPositions(rNames) :
                                 /\ rNames[i] = e.Index
                                 /\ RevOf(rNames[i]) = e.Rev})

C1_Witness ==
    /\ stage = "done"
    /\ rNames = << Name(<<"-", "2">>), Name(<<"-", "l", "e", "g", "a", "c", "y">>),
                   <<"o", "t", "h", "e", "r", "-", "i", "n", "d", "e", "x">>,
                   Name(<<"+", "1", "0">>) >>
    /\ rIndices = << DataIndex(Name(<<"+", "1", "0">>), 10),
                     DataIndex(Name(<<"-", "2">>), 0 - 2) >>

SameEntries(a, b) ==
    /\ Len(a) = Len(b)
    /\ \A e \in Range(a) \cup Range(b) : Occurrences(a, e) = Occurrences(b, e)

\* C2: the resolved Indices are sorted by Rev in descending order, and the
\* sort only permutes the filtered entries.
C2_SortedDescending ==
    stage = "done" =>
        /\ \A i \in 1..(Len(rIndices) - 1) : rIndices[i].Rev >= rIndices[i + 1].Rev
        /\ Len(FilterIndices(rNames, <<>>)) > 0 =>
               SameEntries(rIndices, FilterIndices(rNames, <<>>))

\* Scenario A of the documentation.
C2_Witness ==
    /\ stage = "done"
    /\ rNames = << Name(<<"3">>), Name(<<"1">>),
                   <<"o", "t", "h", "e", "r", "-", "i", "n", "d", "e", "x">>,
                   Name(<<"2">>) >>
    /\ rIndices = << DataIndex(Name(<<"3">>), 3), DataIndex(Name(<<"2">>), 2),
                     DataIndex(Name(<<"1">>), 1) >>

\* C3: when no name survives the filter the resolved Indices are exactly the
\* synthetic entry {kb-rev1, 1}; when a name survives nothing is added.
C3_DefaultOnlyWhenEmpty ==
    stage = "done" =>
        IF QualifyingPositions(rNames) = {}
        THEN rIndices = << DataIndex(<<"k", "b", "-", "r", "e", "v", "1">>, 1) >>
        ELSE Len(rIndices) = Cardinality(QualifyingPositions(rNames))

C3_Witness ==
    /\ stage = "done"
    /\ rNames = << Name(<<"-", "l", "e", "g", "a", "c", "y">>),
                   <<"o", "t", "h", "e", "r", "-", "i", "n", "d", "e", "x">>,
                   Name(<<>>) >>
    /\ rIndices = << DataIndex(<<"k", "b", "-", "r", "e", "v", "1">>, 1) >>

\* C4: the resolved Indices are never empty and every Index begins with
\* "kb-rev".
C4_NonEmptyAndPrefixed ==
    stage = "done" =>
        /\ Len(rIndices) >= 1
        /\ \A i \in 1..Len(rIndices) :
             /\ Len(rIndices[i].Index) >= 6
             /\ SubSeq(rIndices[i].Index, 1, 6) = <<"k", "b", "-", "r", "e", "v">>

C4_Witness ==
    /\ stage = "done"
    /\ rNames = << <<"7">>, Name(<<"2">>),
                   <<"o", "t", "h", "e", "r", "-", "i", "n", "d", "e", "x">> >>
    /\ rIndices = << DataIndex(Name(<<"2">>), 2) >>

\* The label a bucket key is expected to get: a string key is kept, a bool
\* key turns into true or false, an integral number below 10^6 into the
\* decimal digits that read back as the number, 1000000 into 1e+06 and
\* 1500000 into 1.5e+06.
KindMatches(key, kind) ==
    CASE key.t = "string"  -> kind = key.s
      [] key.t = "bool"    -> kind = IF key.b THEN <<"t", "r", "u", "e">>
                                      ELSE <<"f", "a", "l", "s", "e">>
      [] key.t = "float64" ->
            IF key.n > -1000000 /\ key.n < 1000000
            THEN /\ Len(kind) >= 1
                 /\ Len(Unsigned(kind)) >= 1
                 /\ \A i \in 1..Len(Unsigned(kind)) : Unsigned(kind)[i] \in Digits
                 /\ SignedValue(kind) = key.n
            ELSE /\ key.n = 1000000 => kind = <<"1", "e", "+", "0", "6">>
                 /\ key.n = 1500000 => kind = <<"1", ".", "5", "e", "+", "0", "6">>

\* C5: Kinds has one entry per bucket, in bucket order, Kind the stringified
\* Key and Count the DocCount.
C5_OneKindPerBucketInOrder ==
    (stage = "done" /\ aAgg.present) =>
        /\ Len(aKinds) = Len(aAgg.Buckets)
        /\ \A i \in 1..Len(aAgg.Buckets) :
             /\ aKinds[i].Count = aAgg.Buckets[i].DocCount
             /\ KindMatches(aAgg.Buckets[i].Key, aKinds[i].Kind)

C5_Witness ==
    /\ stage = "done"
    /\ aAgg = Terms(<< [Key |-> StrKey(<<"d", "o", "c">>), DocCount |-> 5],
                       [Key |-> StrKey(<<"p", "a", "g", "e">>), DocCount |-> 2] >>)
    /\ aKinds = << DataKind(<<"d", "o", "c">>, 5), DataKind(<<"p", "a", "g", "e">>, 2) >>

\* The search of request p succeeded.
SearchSucceeded(p) == calls[p].search = 1 /\ upErr[p] = nil

\* C6: a successful search whose "kinds" aggregation is absent, or has no
\* bucket, is no error: Kinds is empty and the view is rendered with status
\* 200 from the resolved Indices.
C6_AbsentAggregationRenders ==
    \A p \in Procs :
        (SearchSucceeded(p) /\ (~aggIn[p].present \/ aggIn[p].Buckets = <<>>)) =>
            /\ rpc[p] \in {"render", "done"}
            /\ data[p].Kinds = <<>>
            /\ herr[p] = nil
            /\ rpc[p] = "done" =>
                   /\ resp[p] = [code |-> 200, body |-> "index"]
                   /\ calls[p].render = 1
                   /\ view[p] = [Indices |-> data[p].Indices, Kinds |-> <<>>]
                   /\ Len(view[p].Indices) >= 1

C6_Witness ==
    \E p \in Procs :
        /\ rpc[p] = "done"
        /\ SearchSucceeded(p)
        /\ ~aggIn[p].present
        /\ resp[p].code = 200
        /\ view[p] = [Indices |-> << DataIndex(Name(<<"3">>), 3),
                                     DataIndex(Name(<<"1">>), 1) >>,
                      Kinds |-> <<>>]

\* C7: a failed CatIndices or Search call aborts the view: the handler
\* returns that error, Render is not called, nothing was rendered, neither
\* call is repeated, and no Search follows a failed CatIndices.
C7_UpstreamFailureAborts ==
    \A p \in Procs :
        /\ calls[p].cat <= 1
        /\ calls[p].search <= 1
        /\ upErr[p] # nil =>
               /\ rpc[p] = "done"
               /\ herr[p] = upErr[p]
               /\ calls[p].render = 0
               /\ view[p] = NoData
               /\ resp[p].code = 500
               /\ calls[p].cat = 1
               /\ upErr[p] \in CatErrors => calls[p].search = 0
               /\ upErr[p] \in SearchErrors => calls[p].search = 1

C7_Witness ==
    \E p, q \in Procs :
        /\ upErr[p] \in CatErrors
        /\ herr[p] = upErr[p]
        /\ upErr[q] \in SearchErrors
        /\ herr[q] = upErr[q]
        /\ Len(data[q].Indices) >= 1

\* C8 as stated: no request whose access_token differs from the configured
\* one reaches a search-engine call or the renderer.
C8_NoCoreForWrongToken ==
    \A p \in Procs :
        (rpc[p] # "idle" /\ req[p].token # envAccessToken) => calls[p] = NoCalls

\* C8 as amended: a request for a path other than the route "/" whose
\* access_token differs from the configured one is answered 403 "invalid
\* access_token" by the middleware and reaches neither the template
\* middleware, a search-engine call nor the renderer; the core runs for the
\* route "/" only, whatever the token.
C8_WrongTokenOffRootForbidden ==
    \A p \in Procs :
        /\ (rpc[p] # "idle" /\ req[p].path # "/" /\ req[p].token # envAccessToken) =>
               /\ rpc[p] \in {"auth", "done"}
               /\ calls[p] = NoCalls
               /\ rpc[p] = "done" =>
                      resp[p] = [code |-> 403, body |-> "invalid access_token"]
        /\ calls[p] # NoCalls => req[p].path = "/"

C8_Witness ==
    \E p \in Procs :
        /\ rpc[p] = "done"
        /\ req[p] = [path |-> "/other", token |-> "S3CRET"]
        /\ resp[p].code = 403

\* The access of renderer.templates request p performs next.
NextAccess(p) ==
    CASE rpc[p] = "tmpl"   -> "read"
      [] rpc[p] = "parse"  -> "write"
      [] rpc[p] = "render" -> "read"
      [] OTHER             -> "none"

\* C9: no two requests are at unsynchronized accesses of renderer.templates
\* of which one is a write.
C9_NoUnsynchronizedTemplateAccess ==
    \A p, q \in Procs :
        (p # q /\ Alive) => ~(NextAccess(p) = "write" /\ NextAccess(q) # "none")

\* C10: the process exits with status 1 exactly when the Dial error, the
\* error Start returned before any signal, or the Shutdown error is non-nil;
\* it logs that error, or "exited" on a normal exit; and once a signal was
\* caught Shutdown is called before the exit.
C10_ExitStatusIffError ==
    mainPc = "exited" =>
        /\ (dialRes # nil \/ startBeforeSig \/ shutdownRes # nil) => exitStatus = 1
        /\ exitStatus = 1 => (dialRes # nil \/ startRes # nil \/ shutdownRes # nil)
        /\ exitStatus \in {0, 1}
        /\ exitStatus = 0 => logged = "exited"
        /\ exitStatus = 1 => logged = err /\ err # nil
        /\ sigCaught => shutdownCalled

====
